---- MODULE Spec2Model ----
(***************************************************************************)
(* Model of scripts/ingest_permits.py: borough-name normalisation          *)
(* (normalize_borough), record normalisation (process_permit), borough     *)
(* statistics (compute_borough_stats) and the per-year pipeline of main.   *)
(*                                                                         *)
(* Python values are tagged records; a Python str is the sequence of its   *)
(* Unicode code points, so that strip, replace, slicing and the ordering   *)
(* of strings are computed on characters.                                  *)
(***************************************************************************)
EXTENDS Integers, Sequences, FiniteSets, TLC

VARIABLES
    pc,           \* position of the operation under analysis
    name,         \* argument of normalize_borough
    once,         \* normalize_borough(name)
    twice,        \* normalize_borough(normalize_borough(name))
    raw,          \* argument of process_permit
    out,          \* what process_permit(raw) returned or raised
    permits,      \* argument of compute_borough_stats
    raw_records,  \* main: the year's raw records
    idx,          \* main: number of raw records already normalised
    processed,    \* main: the list `processed`
    kept,         \* history: index in raw_records of each element of processed
    year,         \* the year being processed
    stats         \* result of compute_borough_stats

vars == <<pc, name, once, twice, raw, out, permits, raw_records, idx, processed, kept, year, stats>>

boroughVars == <<name, once, twice>>
permitVars  == <<raw, out>>
mainVars    == <<raw_records, idx, processed, kept>>

(***************************************************************************)
(* Bounds of the model.                                                    *)
(***************************************************************************)
MaxNameLen == 3      \* longest arbitrary borough string that is enumerated
MaxPermits == 3      \* longest enumerated argument list of compute_borough_stats
MaxRecords == 2      \* longest enumerated batch of raw records in main

(***************************************************************************)
(* Python values.                                                          *)
(***************************************************************************)
Absent   == [t |-> "absent"]                 \* the key is not in the dict
None     == [t |-> "none"]
StrV(s)   == [t |-> "str", s |-> s]           \* s: sequence of code points
IntV(n)   == [t |-> "int", n |-> n]
FloatV(m) == [t |-> "float", milli |-> m]     \* a float, in thousandths

\* bool(v): None, "", 0 and 0.0 are false
Truthy(v) ==
    CASE v.t = "none"   -> FALSE
      [] v.t = "absent" -> FALSE
      [] v.t = "str"    -> Len(v.s) > 0
      [] v.t = "int"    -> v.n # 0
      [] v.t = "float"  -> v.milli # 0

\* dict.get(key) and dict.get(key, default)
Get(d, key) == IF d[key] = Absent THEN None ELSE d[key]
GetDefault(d, key, default) == IF d[key] = Absent THEN default ELSE d[key]

(***************************************************************************)
(* str methods.                                                            *)
(***************************************************************************)
HYPHEN  == 45
EM_DASH == 8212
EN_DASH == 8211

\* code points c with chr(c).isspace()
Whitespace ==
    (9..13) \cup (28..32) \cup {133, 160, 5760} \cup (8192..8202)
        \cup {8232, 8233, 8239, 8287, 12288}

RECURSIVE LStrip(_)
LStrip(s) ==
    IF s = <<>> THEN s
    ELSE IF Head(s) \in Whitespace THEN LStrip(Tail(s)) ELSE s

RECURSIVE RStrip(_)
RStrip(s) ==
    IF s = <<>> THEN s
    ELSE IF s[Len(s)] \in Whitespace THEN RStrip(SubSeq(s, 1, Len(s) - 1)) ELSE s

\* str.strip()
Strip(s) == RStrip(LStrip(s))

\* str.replace(old, new) for a one-character old
RECURSIVE Replace(_, _, _)
Replace(s, old, new) ==
    IF s = <<>> THEN <<>>
    ELSE (IF Head(s) = old THEN new ELSE <<Head(s)>>) \o Replace(Tail(s), old, new)

\* s[:n]
Prefix(s, n) == SubSeq(s, 1, IF Len(s) < n THEN Len(s) ELSE n)

\* s1 < s2 in the ordering of str (code point by code point)
RECURSIVE StrLess(_, _)
StrLess(s1, s2) ==
    IF s2 = <<>> THEN FALSE
    ELSE IF s1 = <<>> THEN TRUE
    ELSE IF Head(s1) # Head(s2) THEN Head(s1) < Head(s2)
    ELSE StrLess(Tail(s1), Tail(s2))

(***************************************************************************)
(* Borough name normalisation.                                             *)
(***************************************************************************)
\* the table with one alias value made an alias key of another entry
BOROUGH_ALIASES_chained ==
    { <<<<83,117,100,45,79,117,101,115,116>>,
        <<80,108,97,116,101,97,117,45,77,111,110,116,45,82,111,121,97,108>>>>,
      <<<<80,108,97,116,101,97,117,45,77,111,110,116,45,82,111,121,97,108>>,
        <<76,101,32,80,108,97,116,101,97,117,45,77,111,110,116,45,82,111,121,97,108>>>> }

\* the dict, as the set of its (key, value) items
BOROUGH_ALIASES ==
    \* "Côte-des-Neiges—Notre-Dame-de-Grâce": "Côte-des-Neiges-Notre-Dame-de-Grâce"
    { <<<<67,244,116,101,45,100,101,115,45,78,101,105,103,101,115,8212,78,111,116,114,101,45,68,97,109,101,45,100,101,45,71,114,226,99,101>>,
      <<67,244,116,101,45,100,101,115,45,78,101,105,103,101,115,45,78,111,116,114,101,45,68,97,109,101,45,100,101,45,71,114,226,99,101>>>>,
    \* "Mercier—Hochelaga-Maisonneuve": "Mercier-Hochelaga-Maisonneuve"
      <<<<77,101,114,99,105,101,114,8212,72,111,99,104,101,108,97,103,97,45,77,97,105,115,111,110,110,101,117,118,101>>,
      <<77,101,114,99,105,101,114,45,72,111,99,104,101,108,97,103,97,45,77,97,105,115,111,110,110,101,117,118,101>>>>,
    \* "L'Île-Bizard—Sainte-Geneviève": "L'Île-Bizard-Sainte-Geneviève"
      <<<<76,39,206,108,101,45,66,105,122,97,114,100,8212,83,97,105,110,116,101,45,71,101,110,101,118,105,232,118,101>>,
      <<76,39,206,108,101,45,66,105,122,97,114,100,45,83,97,105,110,116,101,45,71,101,110,101,118,105,232,118,101>>>>,
    \* "Rivière-des-Prairies—Pointe-aux-Trembles": "Rivière-des-Prairies-Pointe-aux-Trembles"
      <<<<82,105,118,105,232,114,101,45,100,101,115,45,80,114,97,105,114,105,101,115,8212,80,111,105,110,116,101,45,97,117,120,45,84,114,101,109,98,108,101,115>>,
      <<82,105,118,105,232,114,101,45,100,101,115,45,80,114,97,105,114,105,101,115,45,80,111,105,110,116,101,45,97,117,120,45,84,114,101,109,98,108,101,115>>>>,
    \* "Villeray—Saint-Michel—Parc-Extension": "Villeray-Saint-Michel-Parc-Extension"
      <<<<86,105,108,108,101,114,97,121,8212,83,97,105,110,116,45,77,105,99,104,101,108,8212,80,97,114,99,45,69,120,116,101,110,115,105,111,110>>,
      <<86,105,108,108,101,114,97,121,45,83,97,105,110,116,45,77,105,99,104,101,108,45,80,97,114,99,45,69,120,116,101,110,115,105,111,110>>>>,
    \* "Plateau-Mont-Royal": "Le Plateau-Mont-Royal"
      <<<<80,108,97,116,101,97,117,45,77,111,110,116,45,82,111,121,97,108>>,
      <<76,101,32,80,108,97,116,101,97,117,45,77,111,110,116,45,82,111,121,97,108>>>>,
    \* "Plateau Mont-Royal": "Le Plateau-Mont-Royal"
      <<<<80,108,97,116,101,97,117,32,77,111,110,116,45,82,111,121,97,108>>,
      <<76,101,32,80,108,97,116,101,97,117,45,77,111,110,116,45,82,111,121,97,108>>>>,
    \* "Sud-Ouest": "Le Sud-Ouest"
      <<<<83,117,100,45,79,117,101,115,116>>,
      <<76,101,32,83,117,100,45,79,117,101,115,116>>>>,
    \* "Montreal-Nord": "Montréal-Nord"
      <<<<77,111,110,116,114,101,97,108,45,78,111,114,100>>,
      <<77,111,110,116,114,233,97,108,45,78,111,114,100>>>>,
    \* "Saint-Leonard": "Saint-Léonard"
      <<<<83,97,105,110,116,45,76,101,111,110,97,114,100>>,
      <<83,97,105,110,116,45,76,233,111,110,97,114,100>>>> }

AliasKeys   == { kv[1] : kv \in BOROUGH_ALIASES }
AliasValues == { kv[2] : kv \in BOROUGH_ALIASES }

\* BOROUGH_ALIASES.get(key, default)
AliasGet(key, default) ==
    IF \E kv \in BOROUGH_ALIASES : kv[1] = key
    THEN (CHOOSE kv \in BOROUGH_ALIASES : kv[1] = key)[2]
    ELSE default

normalize_borough(nm) ==
    IF nm = <<>> THEN <<>>
    ELSE LET cleaned == Replace(Replace(Strip(nm), EM_DASH, <<HYPHEN>>), EN_DASH, <<HYPHEN>>)
         IN  AliasGet(cleaned, cleaned)

(***************************************************************************)
(* datetime.fromisoformat(...).date(), for the grammar                     *)
(*     YYYY-MM-DD [ sep HH[:MM[:SS]] [ (+|-)HH:MM[:SS] ] ]                 *)
(* The result is the proleptic Gregorian ordinal of the calendar date      *)
(* (date.toordinal), or ValueError.                                        *)
(***************************************************************************)
ValueError == -1

IsDigit(c) == c \in 48..57

\* int(s[i:i+2]), or ValueError when the two characters are not digits
Num2(s, i) ==
    IF i + 1 <= Len(s) /\ IsDigit(s[i]) /\ IsDigit(s[i + 1])
    THEN (s[i] - 48) * 10 + (s[i + 1] - 48)
    ELSE ValueError

IsLeap(y) == (y % 4 = 0) /\ ((y % 100 # 0) \/ (y % 400 = 0))

DaysInMonth(y, m) ==
    IF m = 2 THEN (IF IsLeap(y) THEN 29 ELSE 28)
    ELSE IF m \in {4, 6, 9, 11} THEN 30 ELSE 31

RECURSIVE DaysBeforeMonth(_, _)
DaysBeforeMonth(y, m) ==
    IF m = 1 THEN 0 ELSE DaysBeforeMonth(y, m - 1) + DaysInMonth(y, m - 1)

DaysBeforeYear(y) ==
    LET p == y - 1 IN p * 365 + (p \div 4) - (p \div 100) + (p \div 400)

ToOrdinal(y, m, d) == DaysBeforeYear(y) + DaysBeforeMonth(y, m) + d

\* the date part: s[0:10]
ParseIsoDate(s) ==
    IF Len(s) < 10 \/ s[5] # HYPHEN \/ s[8] # HYPHEN THEN ValueError
    ELSE LET yh == Num2(s, 1)
             yl == Num2(s, 3)
             m  == Num2(s, 6)
             d  == Num2(s, 9)
             y  == yh * 100 + yl
         IN  IF yh = ValueError \/ yl = ValueError \/ m = ValueError \/ d = ValueError
             THEN ValueError
             ELSE IF y < 1 \/ m < 1 \/ m > 12 \/ d < 1 \/ d > DaysInMonth(y, m)
             THEN ValueError
             ELSE ToOrdinal(y, m, d)

\* HH[:MM[:SS]] with every component below its limit
ValidHMS(t, maxHour) ==
    /\ Len(t) \in {2, 5, 8}
    /\ Num2(t, 1) # ValueError /\ Num2(t, 1) < maxHour
    /\ Len(t) >= 5 => (t[3] = 58 /\ Num2(t, 4) # ValueError /\ Num2(t, 4) < 60)
    /\ Len(t) >= 8 => (t[6] = 58 /\ Num2(t, 7) # ValueError /\ Num2(t, 7) < 60)

\* position of the first "+" or "-" of t, 0 when there is none
RECURSIVE TzPos(_, _)
TzPos(t, i) ==
    IF i > Len(t) THEN 0
    ELSE IF t[i] \in {43, HYPHEN} THEN i ELSE TzPos(t, i + 1)

\* the time part: s[11:]
ValidIsoTime(t) ==
    LET p == TzPos(t, 1)
    IN  IF p = 0 THEN ValidHMS(t, 24)
        ELSE /\ ValidHMS(SubSeq(t, 1, p - 1), 24)
             /\ Len(t) - p \in {5, 8}
             /\ ValidHMS(SubSeq(t, p + 1, Len(t)), 24)

fromisoformat_date(s) ==
    IF Len(s) <= 10 THEN ParseIsoDate(s)
    ELSE IF Len(s) = 11 THEN ValueError
    ELSE IF ParseIsoDate(s) = ValueError THEN ValueError
    ELSE IF ValidIsoTime(SubSeq(s, 12, Len(s))) THEN ParseIsoDate(s)
    ELSE ValueError

\* datetime.fromisoformat(v.replace("Z", "+00:00")).date()
ParseDate(s) == fromisoformat_date(Replace(s, 90, <<43, 48, 48, 58, 48, 48>>))

(***************************************************************************)
(* float(v) for the decimal grammar [ws] [+|-] digits [. digits] [ws],     *)
(* in thousandths; NotANumber stands for ValueError.                       *)
(***************************************************************************)
NotANumber == [t |-> "ValueError"]

RECURSIVE AllDigits(_)
AllDigits(s) == s = <<>> \/ (IsDigit(Head(s)) /\ AllDigits(Tail(s)))

RECURSIVE DigitsValue(_)
DigitsValue(s) ==
    IF s = <<>> THEN 0 ELSE DigitsValue(SubSeq(s, 1, Len(s) - 1)) * 10 + (s[Len(s)] - 48)

RECURSIVE DotPos(_, _)
DotPos(s, i) == IF i > Len(s) THEN 0 ELSE IF s[i] = 46 THEN i ELSE DotPos(s, i + 1)

FloatOfStr(s) ==
    LET body  == Strip(s)
        neg   == body # <<>> /\ Head(body) = HYPHEN
        digs  == IF body # <<>> /\ Head(body) \in {43, HYPHEN} THEN Tail(body) ELSE body
        p     == DotPos(digs, 1)
        whole == IF p = 0 THEN digs ELSE SubSeq(digs, 1, p - 1)
        frac  == IF p = 0 THEN <<>> ELSE SubSeq(digs, p + 1, Len(digs))
        frac3 == Prefix(frac \o <<48, 48, 48>>, 3)
        mag   == DigitsValue(whole) * 1000 + DigitsValue(frac3)
    IN  IF (whole = <<>> /\ frac = <<>>) \/ ~AllDigits(whole) \/ ~AllDigits(frac)
        THEN NotANumber
        ELSE FloatV(IF neg THEN -mag ELSE mag)

\* float(v)
ToFloat(v) ==
    CASE v.t = "str"   -> FloatOfStr(v.s)
      [] v.t = "int"   -> FloatV(v.n * 1000)
      [] v.t = "float" -> v

(***************************************************************************)
(* process_permit                                                          *)
(***************************************************************************)
PassThrough ==
    << <<"external_id", "no_demande">>,
       <<"permit_id", "id_permis">>,
       <<"address", "emplacement">>,
       <<"type_code", "code_type_base_demande">>,
       <<"type_description", "description_type_demande">>,
       <<"building_type", "description_type_batiment">>,
       <<"building_category", "description_categorie_batiment">>,
       <<"work_nature", "nature_travaux">>,
       <<"housing_units", "nb_logements">> >>

PassKeys == { PassThrough[k][2] : k \in 1..Len(PassThrough) }

RawKeys ==
    PassKeys \cup {"date_debut", "date_emission", "arrondissement", "latitude", "longitude"}

Raise(exc, line) == [t |-> "raise", exc |-> exc, line |-> line]
Raised(v) == v.t = "raise"

\* lines 107-116 without the test for a negative difference
ProcessingDays_keepNegative(app_date, issue_date) ==
    IF Truthy(app_date) /\ Truthy(issue_date)
    THEN IF app_date.t # "str" THEN Raise("AttributeError", 110)
         ELSE LET d1 == ParseDate(app_date.s)
              IN  IF d1 = ValueError THEN None
                  ELSE IF issue_date.t # "str" THEN Raise("AttributeError", 111)
                  ELSE LET d2 == ParseDate(issue_date.s)
                       IN  IF d2 = ValueError THEN None ELSE IntV(d2 - d1)
    ELSE None

\* lines 107-116: the value of processing_days, or the exception that
\* leaves the try block (only ValueError and TypeError are caught)
ProcessingDays(app_date, issue_date) ==
    IF Truthy(app_date) /\ Truthy(issue_date)
    THEN IF app_date.t # "str" THEN Raise("AttributeError", 110)
         ELSE LET d1 == ParseDate(app_date.s)
              IN  IF d1 = ValueError THEN None
                  ELSE IF issue_date.t # "str" THEN Raise("AttributeError", 111)
                  ELSE LET d2 == ParseDate(issue_date.s)
                       IN  IF d2 = ValueError THEN None
                           ELSE IF d2 - d1 < 0 THEN None
                           ELSE IntV(d2 - d1)
    ELSE None

\* v[:10] if v else None  (lines 127, 128)
DateOnly(v, line) ==
    IF ~Truthy(v) THEN None
    ELSE IF v.t # "str" THEN Raise("TypeError", line)
    ELSE StrV(Prefix(v.s, 10))

\* float(v) if v else None  (lines 139, 140)
Coordinate(v, line) ==
    IF ~Truthy(v) THEN None
    ELSE IF ToFloat(v) = NotANumber THEN Raise("ValueError", line)
    ELSE ToFloat(v)

\* raw.get("arrondissement", "") or ""
BoroughRaw(r) ==
    LET b == GetDefault(r, "arrondissement", StrV(<<>>))
    IN  IF Truthy(b) THEN b ELSE StrV(<<>>)

\* normalize_borough(borough_raw): a truthy non-str has no strip()
Borough(b) ==
    IF b.t # "str" THEN Raise("AttributeError", 45)
    ELSE StrV(normalize_borough(b.s))

\* raw.get(key) for every passthrough key but type_code
Passed_allNone(r, key) == Get(r, key)

\* the value stored for a passthrough key (lines 125-138)
Passed(r, key) ==
    IF key = "code_type_base_demande" THEN GetDefault(r, key, StrV(<<>>))
    ELSE Get(r, key)

\* the first of a sequence of values that is an exception, else the last
RECURSIVE FirstRaised(_)
FirstRaised(vs) ==
    IF Len(vs) = 1 \/ Raised(Head(vs)) THEN Head(vs) ELSE FirstRaised(Tail(vs))

process_permit(r) ==
    LET app_date        == Get(r, "date_debut")
        issue_date      == Get(r, "date_emission")
        processing_days == ProcessingDays(app_date, issue_date)
        borough_raw     == BoroughRaw(r)
        borough         == Borough(borough_raw)
        application     == DateOnly(app_date, 127)
        issue           == DateOnly(issue_date, 128)
        latitude        == Coordinate(Get(r, "latitude"), 139)
        longitude       == Coordinate(Get(r, "longitude"), 140)
        result ==
            [t                  |-> "dict",
             external_id        |-> Passed(r, "no_demande"),
             permit_id          |-> Passed(r, "id_permis"),
             application_date   |-> application,
             issue_date         |-> issue,
             processing_days    |-> processing_days,
             address            |-> Passed(r, "emplacement"),
             borough_raw        |-> borough_raw,
             borough_normalized |-> borough,
             type_code          |-> Passed(r, "code_type_base_demande"),
             type_description   |-> Passed(r, "description_type_demande"),
             building_type      |-> Passed(r, "description_type_batiment"),
             building_category  |-> Passed(r, "description_categorie_batiment"),
             work_nature        |-> Passed(r, "nature_travaux"),
             housing_units      |-> Passed(r, "nb_logements"),
             latitude           |-> latitude,
             longitude          |-> longitude]
    IN  FirstRaised(<<processing_days, borough, application, issue,
                      latitude, longitude, result>>)

(***************************************************************************)
(* compute_borough_stats                                                   *)
(*                                                                         *)
(* The rounded numbers of a statistics entry are kept in fixed point:      *)
(* median, average and p90 in tenths (round(x, 1)), the two percentages    *)
(* in hundredths (round(x, 2)).                                            *)
(***************************************************************************)
\* round(num / den, digits) scaled to an integer, num already scaled:
\* round-half-to-even of the quotient.  For groups of fewer than 20
\* permits the binary quotient ties exactly where the rational one does.
RoundHalfEven(num, den) ==
    LET q == num \div den
        r == num % den
    IN  IF 2 * r < den THEN q
        ELSE IF 2 * r > den THEN q + 1
        ELSE IF q % 2 = 0 THEN q ELSE q + 1

RECURSIVE Sum(_)
Sum(s) == IF s = <<>> THEN 0 ELSE Head(s) + Sum(Tail(s))

\* insertion of x into an ascending sequence
RECURSIVE Insert(_, _)
Insert(x, s) ==
    IF s = <<>> THEN <<x>>
    ELSE IF x <= Head(s) THEN <<x>> \o s
    ELSE <<Head(s)>> \o Insert(x, Tail(s))

\* sorted(list of int)
RECURSIVE SortInts(_)
SortInts(s) == IF s = <<>> THEN <<>> ELSE Insert(Head(s), SortInts(Tail(s)))

\* the least string of a non-empty set of strings
MinStr(S) == CHOOSE a \in S : \A b \in S : a = b \/ StrLess(a, b)

\* the keys of sorted(by_borough.items()), ascending  (line 154)
RECURSIVE SortedKeys(_)
SortedKeys(S) ==
    IF S = {} THEN <<>>
    ELSE <<MinStr(S)>> \o SortedKeys(S \ {MinStr(S)})

\* every borough_normalized of the list, the empty one included
GroupKeys_withEmpty(ps) ==
    { ps[i].borough_normalized.s : i \in 1..Len(ps) }

\* the keys of by_borough: permits with an empty borough are skipped
\* (lines 148-151)
GroupKeys(ps) ==
    { ps[i].borough_normalized.s : i \in { j \in 1..Len(ps) : Truthy(ps[j].borough_normalized) } }

InBorough(p, borough) == p.borough_normalized.s = borough

\* by_borough[borough], in input order
BoroughPermits(ps, borough) == SelectSeq(ps, LAMBDA p : InBorough(p, borough))

\* issued, counted by the presence of a duration instead of issue_date
Issued_byDuration(borough_permits) ==
    SelectSeq(borough_permits, LAMBDA p : p.processing_days # None)

\* line 156
Issued(borough_permits) ==
    SelectSeq(borough_permits, LAMBDA p : Truthy(p.issue_date))

HasDuration(p) == p.processing_days # None /\ p.processing_days.n >= 0

\* lines 159-161
Days(issued) ==
    LET withDays == SelectSeq(issued, HasDuration)
    IN  SortInts([i \in 1..Len(withDays) |-> withDays[i].processing_days.n])

\* the median taken at the upper middle element for every length
Median_upperMiddle(days) == 10 * days[(Len(days) \div 2) + 1]

\* lines 164-165 and round(median, 1), in tenths
Median(days) ==
    LET median_idx == Len(days) \div 2
    IN  IF Len(days) % 2 = 1
        THEN 10 * days[median_idx + 1]
        ELSE RoundHalfEven((days[median_idx] + days[median_idx + 1]) * 10, 2)

\* line 166 and round(avg, 1), in tenths
Average(days) == RoundHalfEven(Sum(days) * 10, Len(days))

\* lines 167-168 and round(p90, 1), in tenths; int(n * 0.9) is floor(9n/10)
P90(days) ==
    LET p90_idx == (Len(days) * 9) \div 10
        clamped == IF p90_idx < Len(days) - 1 THEN p90_idx ELSE Len(days) - 1
    IN  10 * days[clamped + 1]

\* lines 169-170 and round(within, 2), in hundredths
PctWithin(days, limit) ==
    RoundHalfEven(Len(SelectSeq(days, LAMBDA d : d <= limit)) * 10000, Len(days))

\* one iteration of the loop of lines 154-186
BoroughEntry(ps, borough, yr) ==
    LET borough_permits == BoroughPermits(ps, borough)
        total   == Len(borough_permits)
        issued  == Issued(borough_permits)
        pending == total - Len(issued)
        days    == Days(issued)
    IN  [borough                |-> borough,
         year                   |-> yr,
         total_permits          |-> total,
         permits_issued         |-> Len(issued),
         permits_pending        |-> pending,
         median_processing_days |-> IF days # <<>> THEN Median(days) ELSE 0,
         avg_processing_days    |-> IF days # <<>> THEN Average(days) ELSE 0,
         p90_processing_days    |-> IF days # <<>> THEN P90(days) ELSE 0,
         pct_within_90_days     |-> IF days # <<>> THEN PctWithin(days, 90) ELSE 0,
         pct_within_120_days    |-> IF days # <<>> THEN PctWithin(days, 120) ELSE 0]

compute_borough_stats(ps, yr) ==
    LET boroughs == SortedKeys(GroupKeys(ps))
    IN  [k \in 1..Len(boroughs) |-> BoroughEntry(ps, boroughs[k], yr)]

\* the filter of line 276
KeepsPermit_issued(p) == Truthy(p.issue_date)

KeepsPermit(p) == Truthy(p.application_date)

(***************************************************************************)
(* Enumerated inputs.                                                      *)
(***************************************************************************)
TS_2024_01_10Z == <<50, 48, 50, 52, 45, 48, 49, 45, 49, 48, 84, 48, 48, 58, 48, 48, 58, 48, 48, 90>>   \* "2024-01-10T00:00:00Z"
TS_2024_03_20Z == <<50, 48, 50, 52, 45, 48, 51, 45, 50, 48, 84, 48, 48, 58, 48, 48, 58, 48, 48, 90>>   \* "2024-03-20T00:00:00Z"
TS_2024_02_29 == <<50, 48, 50, 52, 45, 48, 50, 45, 50, 57, 84, 49, 50, 58, 51, 48, 58, 48, 48>>   \* "2024-02-29T12:30:00"
TS_2023_12_31_OFFSET == <<50, 48, 50, 51, 45, 49, 50, 45, 51, 49, 84, 50, 51, 58, 53, 57, 58, 53, 57, 45, 48, 53, 58, 48, 48>>   \* "2023-12-31T23:59:59-05:00"
TS_2024_03_01_DATE == <<50, 48, 50, 52, 45, 48, 51, 45, 48, 49>>   \* "2024-03-01"
TS_BAD_MONTH == <<50, 48, 50, 52, 45, 49, 51, 45, 52, 53, 84, 48, 48, 58, 48, 48, 58, 48, 48>>   \* "2024-13-45T00:00:00"
TS_NOT_A_DATE == <<110, 111, 116, 45, 97, 45, 100, 97, 116, 101, 45, 97, 116, 45, 97, 108, 108>>   \* "not-a-date-at-all"
TS_2024_01_20 == <<50, 48, 50, 52, 45, 48, 49, 45, 50, 48, 84, 48, 48, 58, 48, 48, 58, 48, 48>>   \* "2024-01-20T00:00:00"
TS_2024_01_30 == <<50, 48, 50, 52, 45, 48, 49, 45, 51, 48, 84, 48, 48, 58, 48, 48, 58, 48, 48>>   \* "2024-01-30T00:00:00"
TS_2024_02_09 == <<50, 48, 50, 52, 45, 48, 50, 45, 48, 57, 84, 48, 48, 58, 48, 48, 58, 48, 48>>   \* "2024-02-09T00:00:00"
TS_2024_02_19 == <<50, 48, 50, 52, 45, 48, 50, 45, 49, 57, 84, 48, 48, 58, 48, 48, 58, 48, 48>>   \* "2024-02-19T00:00:00"
TS_2024_04_19 == <<50, 48, 50, 52, 45, 48, 52, 45, 49, 57, 84, 48, 48, 58, 48, 48, 58, 48, 48>>   \* "2024-04-19T00:00:00"
TS_2024_05_19 == <<50, 48, 50, 52, 45, 48, 53, 45, 49, 57, 84, 48, 48, 58, 48, 48, 58, 48, 48>>   \* "2024-05-19T00:00:00"
S_SUD_OUEST_PADDED == <<32, 83, 117, 100, 45, 79, 117, 101, 115, 116, 32>>   \* " Sud-Ouest "
S_VERDUN == <<86, 101, 114, 100, 117, 110>>   \* "Verdun"
S_LAT == <<52, 53, 46, 53>>   \* "45.5"
S_LON == <<45, 55, 51, 46, 54>>   \* "-73.6"
S_ABC == <<97, 98, 99>>   \* "abc"
S_NO_DEMANDE == <<51, 48, 48, 49>>   \* "3001"
S_ID_PERMIS == <<80, 45, 55, 55>>   \* "P-77"
S_EMPLACEMENT == <<49, 48, 32, 114, 117, 101, 32, 88>>   \* "10 rue X"
S_CODE == <<67, 79>>   \* "CO"
S_TEXT == <<116, 120, 116>>   \* "txt"

\* borough strings: the alias keys and values, the keys padded with
\* whitespace or written with en/em dashes, and all short strings over a
\* small alphabet of spaces, dashes and a letter
DashedWith(s, dash) == Replace(s, HYPHEN, <<dash>>)

NameAlphabet == {32, HYPHEN, EN_DASH, EM_DASH, 83}

BoroughInputs ==
    AliasKeys \cup AliasValues
        \cup { <<32, 9>> \o k \o <<10, 160>> : k \in AliasKeys }
        \cup { DashedWith(k, EN_DASH) : k \in AliasKeys }
        \cup { DashedWith(k, EM_DASH) : k \in AliasKeys }
        \cup UNION { [1..n -> NameAlphabet] : n \in 0..MaxNameLen }

WellFormedDates ==
    {TS_2024_01_10Z, TS_2024_03_20Z, TS_2024_02_29, TS_2023_12_31_OFFSET, TS_2024_03_01_DATE}

MalformedDates == {TS_BAD_MONTH, TS_NOT_A_DATE}

DateInputs ==
    {Absent, None, StrV(<<>>), IntV(0), IntV(20240110)}
        \cup { StrV(s) : s \in WellFormedDates \cup MalformedDates }

BoroughFieldInputs == {Absent, None, StrV(S_SUD_OUEST_PADDED), StrV(S_VERDUN), IntV(7)}

LatitudeInputs  == {Absent, IntV(0), StrV(S_LAT), FloatV(45500), StrV(S_ABC)}
LongitudeInputs == {Absent, StrV(S_LON), StrV(S_ABC)}

\* the value a passthrough key has when it is present
Sample(key) ==
    CASE key = "no_demande"             -> StrV(S_NO_DEMANDE)
      [] key = "id_permis"              -> StrV(S_ID_PERMIS)
      [] key = "emplacement"            -> StrV(S_EMPLACEMENT)
      [] key = "code_type_base_demande" -> StrV(S_CODE)
      [] key = "nb_logements"           -> IntV(2)
      [] OTHER                          -> StrV(S_TEXT)

\* the passthrough keys a record lacks: none, one of them, or all
MissingSets == {{}, PassKeys} \cup { {k} : k \in PassKeys }

RawRecord(dd, de, arr, lat, lon, missing) ==
    [k \in RawKeys |->
        CASE k = "date_debut"     -> dd
          [] k = "date_emission"  -> de
          [] k = "arrondissement" -> arr
          [] k = "latitude"       -> lat
          [] k = "longitude"      -> lon
          [] OTHER                -> IF k \in missing THEN Absent ELSE Sample(k)]

RawRecords ==
    { RawRecord(dd, de, arr, lat, lon, missing) :
        dd \in DateInputs, de \in DateInputs, arr \in BoroughFieldInputs,
        lat \in LatitudeInputs, lon \in LongitudeInputs, missing \in MissingSets }

\* arguments of compute_borough_stats: normalized permits of three
\* boroughs (one of them empty) that are pending, issued with an
\* inconsistent (negative) duration, or issued after 10, 20, 100, 130 days
StatEmissions ==
    {Absent, StrV(TS_2023_12_31_OFFSET), StrV(TS_2024_01_20), StrV(TS_2024_01_30),
     StrV(TS_2024_04_19), StrV(TS_2024_05_19)}

StatBoroughs == {Absent, StrV(S_VERDUN), StrV(S_SUD_OUEST_PADDED)}

StatRecord(de, arr) == RawRecord(StrV(TS_2024_01_10Z), de, arr, Absent, Absent, {})

StatPermits == { process_permit(StatRecord(de, arr)) : de \in StatEmissions, arr \in StatBoroughs }

\* one borough whose durations are 30, 10, 40, 20 days
ExamplePermits ==
    << process_permit(StatRecord(StrV(TS_2024_02_09), StrV(S_VERDUN))),
       process_permit(StatRecord(StrV(TS_2024_01_20), StrV(S_VERDUN))),
       process_permit(StatRecord(StrV(TS_2024_02_19), StrV(S_VERDUN))),
       process_permit(StatRecord(StrV(TS_2024_01_30), StrV(S_VERDUN))) >>

PermitLists == UNION { [1..n -> StatPermits] : n \in 0..MaxPermits } \cup {ExamplePermits}

\* the raw records of a batch in main
MainRecords ==
    { RawRecord(StrV(TS_2024_01_10Z), StrV(TS_2024_03_20Z), StrV(S_VERDUN), StrV(S_LAT), StrV(S_LON), {}),
      RawRecord(StrV(TS_2024_01_10Z), Absent, StrV(S_VERDUN), Absent, Absent, {}),
      RawRecord(StrV(TS_2024_02_29), None, StrV(S_SUD_OUEST_PADDED), Absent, Absent, {}),
      RawRecord(StrV(TS_2024_01_10Z), Absent, Absent, Absent, Absent, PassKeys),
      RawRecord(StrV(TS_2024_03_20Z), StrV(TS_2024_01_10Z), StrV(S_SUD_OUEST_PADDED), Absent, Absent, {}),
      RawRecord(Absent, StrV(TS_2024_03_20Z), StrV(S_VERDUN), Absent, Absent, {}),
      RawRecord(None, Absent, StrV(S_VERDUN), Absent, Absent, {}),
      RawRecord(StrV(<<>>), Absent, StrV(S_SUD_OUEST_PADDED), Absent, Absent, {}),
      RawRecord(StrV(TS_NOT_A_DATE), Absent, StrV(S_VERDUN), Absent, Absent, {}),
      RawRecord(IntV(20240110), Absent, StrV(S_VERDUN), Absent, Absent, {}),
      RawRecord(StrV(TS_2024_01_10Z), StrV(TS_2024_03_20Z), StrV(S_VERDUN), StrV(S_ABC), Absent, {}) }

Batches == UNION { [1..n -> MainRecords] : n \in 0..MaxRecords }

Years == {2024, 2025}

(***************************************************************************)
(* Specifications.  Each applies one function of the script to inputs      *)
(* drawn from the enumerated sets; SpecMain is the per-year body of main.  *)
(***************************************************************************)
NoRecord == [k \in RawKeys |-> Absent]

IdleBorough == name = <<>> /\ once = <<>> /\ twice = <<>>
IdlePermit  == raw = NoRecord /\ out = None
IdleStats   == permits = <<>> /\ year = 0 /\ stats = <<>>
IdleMain    == raw_records = <<>> /\ idx = 0 /\ processed = <<>> /\ kept = <<>>

\* ---- normalize_borough, applied once and again to its own result
InitBorough ==
    /\ pc = "normalize"
    /\ name \in BoroughInputs
    /\ once = <<>> /\ twice = <<>>
    /\ IdlePermit /\ IdleStats /\ IdleMain

NormalizeOnce ==
    /\ pc = "normalize"
    /\ once' = normalize_borough(name)
    /\ pc' = "renormalize"
    /\ UNCHANGED <<name, twice, permitVars, permits, mainVars, year, stats>>

NormalizeAgain ==
    /\ pc = "renormalize"
    /\ twice' = normalize_borough(once)
    /\ pc' = "normalized"
    /\ UNCHANGED <<name, once, permitVars, permits, mainVars, year, stats>>

NextBorough == NormalizeOnce \/ NormalizeAgain

SpecBorough == InitBorough /\ [][NextBorough]_vars

\* ---- process_permit
InitPermit ==
    /\ pc = "process"
    /\ raw \in RawRecords
    /\ out = None
    /\ IdleBorough /\ IdleStats /\ IdleMain

ProcessPermit ==
    /\ pc = "process"
    /\ out' = process_permit(raw)
    /\ pc' = "returned"
    /\ UNCHANGED <<boroughVars, raw, permits, mainVars, year, stats>>

NextPermit == ProcessPermit

SpecPermit == InitPermit /\ [][NextPermit]_vars

\* ---- compute_borough_stats
InitStats ==
    /\ pc = "call"
    /\ permits \in PermitLists
    /\ year = 2024
    /\ stats = <<>>
    /\ IdleBorough /\ IdlePermit /\ IdleMain

ComputeBoroughStats ==
    /\ pc = "call"
    /\ stats' = compute_borough_stats(permits, year)
    /\ pc' = "computed"
    /\ UNCHANGED <<boroughVars, permitVars, permits, mainVars, year>>

NextStats == ComputeBoroughStats

SpecStats == InitStats /\ [][NextStats]_vars

\* ---- the body of the loop over years in main, from the moment
\* raw_records is loaded (lines 270-284)
InitMain ==
    /\ pc = "loaded"
    /\ raw_records \in Batches
    /\ year \in Years
    /\ idx = 0 /\ processed = <<>> /\ kept = <<>>
    /\ permits = <<>> /\ stats = <<>>
    /\ IdleBorough /\ IdlePermit

\* lines 270-272: nothing to do for an empty year
SkipYear ==
    /\ pc = "loaded"
    /\ raw_records = <<>>
    /\ pc' = "skipped"
    /\ UNCHANGED <<boroughVars, permitVars, permits, mainVars, year, stats>>

\* line 275, one element of the comprehension: an exception of
\* process_permit is caught nowhere and leaves main
NormalizeRecord ==
    /\ pc = "loaded"
    /\ idx < Len(raw_records)
    /\ LET p == process_permit(raw_records[idx + 1])
       IN  IF Raised(p)
           THEN /\ pc' = "raised"
                /\ out' = p
                /\ UNCHANGED <<idx, processed, kept>>
           ELSE /\ idx' = idx + 1
                /\ processed' = Append(processed, p)
                /\ kept' = Append(kept, idx + 1)
                /\ UNCHANGED <<pc, out>>
    /\ UNCHANGED <<boroughVars, raw, permits, raw_records, year, stats>>

\* line 276
FilterProcessed ==
    /\ pc = "loaded"
    /\ raw_records # <<>>
    /\ idx = Len(raw_records)
    /\ LET keep == { j \in 1..Len(processed) : KeepsPermit(processed[j]) }
           pos(k) == CHOOSE j \in keep : Cardinality({ i \in keep : i < j }) = k - 1
       IN  /\ processed' = [k \in 1..Cardinality(keep) |-> processed[pos(k)]]
           /\ kept' = [k \in 1..Cardinality(keep) |-> kept[pos(k)]]
    /\ pc' = "filtered"
    /\ UNCHANGED <<boroughVars, permitVars, permits, raw_records, idx, year, stats>>

\* line 279
ComputeStats ==
    /\ pc = "filtered"
    /\ permits' = processed
    /\ stats' = compute_borough_stats(processed, year)
    /\ pc' = "computed"
    /\ UNCHANGED <<boroughVars, permitVars, mainVars, year>>

\* lines 280-284: the table is printed and both files are written
SaveOutputs ==
    /\ pc = "computed"
    /\ pc' = "saved"
    /\ UNCHANGED <<boroughVars, permitVars, permits, mainVars, year, stats>>

NextMain == SkipYear \/ NormalizeRecord \/ FilterProcessed \/ ComputeStats \/ SaveOutputs

SpecMain == InitMain /\ [][NextMain]_vars

(***************************************************************************)
(* Properties of normalize_borough (SpecBorough).                          *)
(***************************************************************************)
\* C10: normalize_borough is idempotent: normalising its own result again
\* gives the same string, for alias keys, alias values and arbitrary strings
\* with surrounding whitespace or en/em dashes.
NormalizeIdempotent == pc = "normalized" => twice = once

\* an alias key was rewritten to its canonical name, which then stays
NormalizeIdempotentWitness ==
    /\ pc = "normalized"
    /\ Strip(name) \in AliasKeys
    /\ once \in AliasValues /\ once # name
    /\ twice = once

(***************************************************************************)
(* Properties of process_permit (SpecPermit).                              *)
(***************************************************************************)
IsNumeric(v) ==
    \/ v.t \in {"int", "float"}
    \/ v.t = "str" /\ FloatOfStr(v.s) # NotANumber

\* the fields other than the dates cannot make process_permit raise
OtherFieldsBenign(r) ==
    /\ r["latitude"] = Absent \/ IsNumeric(r["latitude"])
    /\ r["longitude"] = Absent \/ IsNumeric(r["longitude"])
    /\ r["arrondissement"].t \in {"absent", "none", "str"}

\* C1: whatever the two date fields are (absent, null, well-formed,
\* malformed, or a non-string scalar), process_permit returns a normalized
\* record and raises nothing, when latitude/longitude are absent or numeric.
NeverRaisesOnDates ==
    (pc = "returned" /\ OtherFieldsBenign(raw)) => ~Raised(out)

\* the raw date value is there and is not an ISO date-time
Unparseable(v) ==
    /\ v.t \notin {"absent", "none"}
    /\ v.t = "str" => ParseDate(v.s) = ValueError

\* C2: a raw date field that is present but unparseable gives
\* processing_days = null and a null output date field.
UnparseableDateStoredNull ==
    (pc = "returned" /\ ~Raised(out)) =>
        /\ Unparseable(raw["date_debut"]) =>
              (out.processing_days = None /\ out.application_date = None)
        /\ Unparseable(raw["date_emission"]) =>
              (out.processing_days = None /\ out.issue_date = None)

\* the calendar date of each well-formed timestamp of the inputs, in days
\* since 2024-01-01
CalendarDay(s) ==
    CASE s = TS_2024_01_10Z       -> 9
      [] s = TS_2024_03_20Z       -> 79
      [] s = TS_2024_02_29        -> 59
      [] s = TS_2023_12_31_OFFSET -> -1
      [] s = TS_2024_03_01_DATE   -> 60

IsWellFormed(v) == v.t = "str" /\ v.s \in WellFormedDates

\* C3: the returned processing_days is the difference in days of the two
\* calendar dates when both dates are present and parse and the difference
\* is not negative, and it is null in every other case; it is never negative.
ProcessingDaysExact ==
    (pc = "returned" /\ ~Raised(out)) =>
        LET dd == raw["date_debut"]
            de == raw["date_emission"]
        IN  IF IsWellFormed(dd) /\ IsWellFormed(de)
               /\ CalendarDay(de.s) - CalendarDay(dd.s) >= 0
            THEN out.processing_days = IntV(CalendarDay(de.s) - CalendarDay(dd.s))
            ELSE out.processing_days = None

\* the spec's example (70 days) was computed
ProcessingDaysExactWitness ==
    /\ pc = "returned"
    /\ raw["date_debut"] = StrV(TS_2024_01_10Z)
    /\ raw["date_emission"] = StrV(TS_2024_03_20Z)
    /\ ~Raised(out)
    /\ out.processing_days = IntV(70)

\* C4 as stated: every passthrough field is the value of its source key,
\* and null when the key is missing.
PassthroughOrNull ==
    (pc = "returned" /\ ~Raised(out)) =>
        \A k \in 1..Len(PassThrough) :
            out[PassThrough[k][1]] =
                (IF raw[PassThrough[k][2]] = Absent THEN None ELSE raw[PassThrough[k][2]])

\* C4 (amended): every passthrough field is the value of its source key;
\* when the key is missing the field is null, except type_code, which is
\* the empty string.
PassthroughOrDefault ==
    (pc = "returned" /\ ~Raised(out)) =>
        \A k \in 1..Len(PassThrough) :
            out[PassThrough[k][1]] =
                (IF raw[PassThrough[k][2]] # Absent THEN raw[PassThrough[k][2]]
                 ELSE IF PassThrough[k][1] = "type_code" THEN StrV(<<>>)
                 ELSE None)

\* a record lacking only code_type_base_demande was normalized
PassthroughOrDefaultWitness ==
    /\ pc = "returned"
    /\ ~Raised(out)
    /\ raw["code_type_base_demande"] = Absent
    /\ raw["no_demande"] # Absent
    /\ out.type_code = StrV(<<>>)
    /\ out.external_id = raw["no_demande"]

(***************************************************************************)
(* Properties of compute_borough_stats (SpecStats).                        *)
(***************************************************************************)
Computed == pc = "computed"

Permuted(ps, f) == [i \in 1..Len(ps) |-> ps[f[i]]]

NonEmptyBoroughs(ps) ==
    { ps[i].borough_normalized.s : i \in 1..Len(ps) } \ {<<>>}

\* C7: the result has exactly one entry per distinct non-empty
\* borough_normalized of the input and none for the empty borough, its
\* entries are in strictly ascending order of borough name, and it is the
\* same for every permutation of the input list.
OneSortedEntryPerBorough ==
    Computed =>
        /\ { stats[k].borough : k \in 1..Len(stats) } = NonEmptyBoroughs(permits)
        /\ Len(stats) = Cardinality(NonEmptyBoroughs(permits))
        /\ \A k \in 1..(Len(stats) - 1) : StrLess(stats[k].borough, stats[k + 1].borough)
        /\ \A f \in Permutations(1..Len(permits)) :
              compute_borough_stats(Permuted(permits, f), year) = stats

\* two boroughs given in descending order, with a permit of the empty
\* borough between them, came out as two entries in ascending order
OneSortedEntryPerBoroughWitness ==
    /\ Computed
    /\ Len(permits) = 3
    /\ permits[1].borough_normalized.s = S_VERDUN
    /\ permits[2].borough_normalized.s = <<>>
    /\ permits[3].borough_normalized.s # S_VERDUN
    /\ Len(stats) = 2
    /\ stats[2].borough = S_VERDUN

InGroup(s) == { i \in 1..Len(permits) : permits[i].borough_normalized.s = s.borough }

\* C8: in every entry total_permits is the number of input permits of that
\* borough, permits_issued the number of those with a non-null issue_date,
\* and permits_pending the difference of the two.
CountsPartitionGroup ==
    Computed =>
        \A k \in 1..Len(stats) :
            LET s == stats[k]
            IN  /\ s.total_permits = Cardinality(InGroup(s))
                /\ s.permits_issued =
                       Cardinality({ i \in InGroup(s) : permits[i].issue_date # None })
                /\ s.permits_pending = s.total_permits - s.permits_issued
                /\ s.permits_issued + s.permits_pending = s.total_permits

\* a borough with an issued permit that has no duration and a pending one:
\* the duration sub-population is empty and the counts are the actual ones
CountsPartitionGroupWitness ==
    /\ Computed
    /\ \E k \in 1..Len(stats) :
          /\ stats[k].total_permits = 2
          /\ stats[k].permits_issued = 1
          /\ stats[k].permits_pending = 1
          /\ stats[k].median_processing_days = 0
          /\ \A i \in InGroup(stats[k]) : permits[i].processing_days = None

\* the durations d[0..n-1] of a group, ascending
GroupDays(s) == Days(Issued(BoroughPermits(permits, s.borough)))

Min(a, b) == IF a < b THEN a ELSE b

\* C9: with d the ascending durations of a group and n their number, an
\* entry reports 0 for median, average, p90 and both percentages when
\* n = 0; otherwise its median is d[n/2] for odd n and the mean of
\* d[n/2 - 1] and d[n/2] for even n, and its p90 is d[min(floor(0.9 n), n-1)].
\* (median and p90 in tenths; d is indexed from 1 here)
MedianAndP90ByRank ==
    Computed =>
        \A k \in 1..Len(stats) :
            LET s == stats[k]
                d == GroupDays(s)
                n == Len(d)
                h == n \div 2
            IN  IF n = 0
                THEN /\ s.median_processing_days = 0
                     /\ s.avg_processing_days = 0
                     /\ s.p90_processing_days = 0
                     /\ s.pct_within_90_days = 0
                     /\ s.pct_within_120_days = 0
                ELSE /\ n % 2 = 1 => s.median_processing_days = 10 * d[h + 1]
                     /\ n % 2 = 0 => s.median_processing_days = 5 * (d[h] + d[h + 1])
                     /\ s.p90_processing_days = 10 * d[Min((9 * n) \div 10, n - 1) + 1]

\* durations [10, 20, 30, 40] gave median 25.0 and p90 40
MedianAndP90ByRankWitness ==
    /\ Computed
    /\ Len(stats) = 1
    /\ GroupDays(stats[1]) = <<10, 20, 30, 40>>
    /\ stats[1].median_processing_days = 250
    /\ stats[1].p90_processing_days = 400
    /\ stats[1].pct_within_90_days = 10000

(***************************************************************************)
(* Properties of the per-year pipeline of main (SpecMain).                 *)
(***************************************************************************)
\* C5: a record whose normalisation fails never aborts the batch: the
\* other records are still normalized and the processed set and the
\* statistics of the year are still produced.
BatchNeverAborts == pc # "raised"

\* a date field is missing: the key is absent, or its value is null or empty
Missing(v) == ~Truthy(v)

PassedToStats == pc \in {"filtered", "computed", "saved"}

\* C6: the list passed to compute_borough_stats holds no record whose
\* date_debut was missing and holds every record whose date_debut is
\* present and whose date_emission is missing; such a record has a null
\* issue_date and processing_days and, when its borough is not empty,
\* counts once in total_permits and once in permits_pending of its borough.
PendingRetainedAndCounted ==
    /\ PassedToStats =>
          /\ \A j \in 1..Len(processed) :
                ~Missing(raw_records[kept[j]]["date_debut"])
          /\ \A i \in 1..Len(raw_records) :
                (~Missing(raw_records[i]["date_debut"]) /\ Missing(raw_records[i]["date_emission"]))
                    => \E j \in 1..Len(processed) :
                          /\ kept[j] = i
                          /\ processed[j].issue_date = None
                          /\ processed[j].processing_days = None
    /\ pc \in {"computed", "saved"} =>
          \A j \in 1..Len(processed) :
              (Missing(raw_records[kept[j]]["date_emission"]) /\ Truthy(processed[j].borough_normalized))
                  => \E k \in 1..Len(stats) :
                        LET sameBorough ==
                                { m \in 1..Len(processed) :
                                    processed[m].borough_normalized = processed[j].borough_normalized }
                        IN  /\ stats[k].borough = processed[j].borough_normalized.s
                            /\ stats[k].total_permits = Cardinality(sameBorough)
                            /\ stats[k].permits_pending =
                                   Cardinality({ m \in sameBorough :
                                       Missing(raw_records[kept[m]]["date_emission"]) })

\* a batch of a record without date_debut and a pending record: only the
\* pending one was passed on, and it is counted as pending
PendingRetainedAndCountedWitness ==
    /\ pc = "saved"
    /\ Len(raw_records) = 2
    /\ raw_records[1]["date_debut"] = Absent
    /\ raw_records[2]["date_debut"] = StrV(TS_2024_01_10Z)
    /\ raw_records[2]["date_emission"] = Absent
    /\ kept = <<2>>
    /\ processed[1].issue_date = None
    /\ Len(stats) = 1
    /\ stats[1].total_permits = 1
    /\ stats[1].permits_pending = 1
====
